---- MODULE Spec2Model ----
(***************************************************************************)
(* Model of the RAG chat backend: the conversation store (SessionService), *)
(* one chat turn of RAGService.chat as a sequence of store transactions,   *)
(* RAGService.search, the POST /api/v1/chat handler and the                *)
(* RAGServiceContainer.                                                    *)
(*                                                                         *)
(* Scores and confidences are fixed point, in hundredths (One = 1.0).      *)
(***************************************************************************)
EXTENDS Integers, Sequences, FiniteSets, TLC

\* ---------------------------------------------------------------- bounds
MaxTurns == 2
MaxSessions == 2
MaxMessages == 4
MaxResults == 2
MaxThreads == 3
MaxHistory == 12
MaxLimit == 3
MaxLines == 4
MaxChunks == 2
MaxContextHistory == 2

\* ------------------------------------------------------ program constants
One == 100
DefaultSimilarityThreshold == 35
HistoryLimit == 20
RenderLimit == 10

\* ----------------------------------------------------------------- values
None == 0
Turns == 1..MaxTurns
Threads == 1..MaxThreads
SessionIds == 1..MaxSessions
\* an id no create_session ever returns (uuid4 ids never collide)
UnknownId == MaxSessions + 1
\* the question of turn t
QuestionOf(t) == IF t = 1 THEN "q1" ELSE IF t = 2 THEN "q2" ELSE "q3"
Scores == {20, 50, 100, 120}
\* the scores the provider returns to a chat turn
TurnScores == {20, 50, 120}
Thresholds == {0, 35, 50, 100}
Docs == {"d1", "d2"}
no_results_message == "no_results_message"
LLMAnswer == "llm_answer"

VARIABLES
    sessions,             \* ids of the rows of table sessions
    messages,             \* rows of table messages, in created_at order
    nextSid,              \* number of session ids handed out so far
    nextMid,              \* number of message ids handed out so far
    session_rows,         \* session id -> title and updated_at of its row
    turn,                 \* turn[t]: the locals of one call of RAGService.chat
    similarity_threshold, \* settings.similarity_threshold
    vector_store,         \* whether RAGService.vector_store is set
    s_pc, s_raw, s_k, s_out,        \* one call of RAGService.search
    call_pc, call_args, call_result, \* one call of a function, its arguments, its result
    _rag_service, constructed, th,  \* RAGServiceContainer and its callers
    app                             \* the application: "down", "running"

storeVars == <<sessions, messages, nextSid, nextMid, session_rows>>
callVars == <<call_pc, call_args, call_result>>
searchVars == <<s_pc, s_raw, s_k, s_out, call_pc, call_args, call_result>>
containerVars == <<_rag_service, constructed, th, app>>
settingVars == <<similarity_threshold, vector_store>>
vars == <<sessions, messages, nextSid, nextMid, session_rows, turn, similarity_threshold, vector_store,
          s_pc, s_raw, s_k, s_out, call_pc, call_args, call_result,
          _rag_service, constructed, th, app>>

\* -------------------------------------------------------------- sequences
RECURSIVE Reverse(_)
Reverse(s) == IF s = <<>> THEN <<>> ELSE Append(Reverse(Tail(s)), Head(s))

Take(s, n) == IF Len(s) <= n THEN s ELSE SubSeq(s, 1, n)

SeqsUpTo(S, n) == UNION {[1..m -> S] : m \in 0..n}

Range(s) == {s[i] : i \in 1..Len(s)}

Min(a, b) == IF a <= b THEN a ELSE b
Max(a, b) == IF a >= b THEN a ELSE b

\* ------------------------------------------------------ conversation store
\* SessionService.get_conversation_history: newest first, limited, reversed
MessagesOf(msgs, session_id) == SelectSeq(msgs, LAMBDA m : m.session_id = session_id)

HistoryRows(msgs, session_id, limit) ==
    LET newestFirst == Reverse(MessagesOf(msgs, session_id))
        limited == IF limit # None THEN Take(newestFirst, limit) ELSE newestFirst
    IN  Reverse(limited)

get_conversation_history(msgs, session_id, limit) ==
    LET rows == HistoryRows(msgs, session_id, limit)
    IN  [i \in 1..Len(rows) |-> [role |-> rows[i].role, content |-> rows[i].content]]

\* SessionService.create_session: a row with a fresh id
DefaultTitle == "new conversation"
\* no title given: None and "" are both falsy
NoTitle == ""

\* the row a new session gets; updated_at is a logical time: 0 at creation,
\* then the id of the last message added
NewRow(title) ==
    [title |-> IF title = NoTitle THEN DefaultTitle ELSE title, updated_at |-> 0]

create_session(id, title) ==
    /\ nextSid < MaxSessions
    /\ id = nextSid + 1
    /\ nextSid' = id
    /\ sessions' = sessions \cup {id}
    /\ session_rows' = [s \in sessions \cup {id} |->
                            IF s = id THEN NewRow(title) ELSE session_rows[s]]
    /\ UNCHANGED <<messages, nextMid>>

\* mutant: adding a message touches updated_at of every session
add_message_touches_all(session_id, role, content, metadata, result) ==
    IF session_id \notin sessions
    THEN /\ result = None
         /\ UNCHANGED storeVars
    ELSE /\ nextMid < MaxMessages
         /\ result = nextMid + 1
         /\ nextMid' = result
         /\ messages' = Append(messages, [id |-> result, session_id |-> session_id,
                                          role |-> role, content |-> content,
                                          metadata |-> metadata])
         /\ session_rows' = [s \in sessions |-> [session_rows[s] EXCEPT !.updated_at = result]]
         /\ UNCHANGED <<sessions, nextSid>>

\* SessionService.add_message: None when the session row is absent
add_message(session_id, role, content, metadata, result) ==
    IF session_id \notin sessions
    THEN /\ result = None
         /\ UNCHANGED storeVars
    ELSE /\ nextMid < MaxMessages
         /\ result = nextMid + 1
         /\ nextMid' = result
         /\ messages' = Append(messages, [id |-> result, session_id |-> session_id,
                                          role |-> role, content |-> content,
                                          metadata |-> metadata])
         /\ session_rows' = [session_rows EXCEPT ![session_id].updated_at = result]
         /\ UNCHANGED <<sessions, nextSid>>

\* mutant: the session row is deleted, its messages stay
delete_session_no_cascade(session_id, result) ==
    IF session_id \notin sessions
    THEN /\ result = FALSE
         /\ UNCHANGED storeVars
    ELSE /\ result = TRUE
         /\ sessions' = sessions \ {session_id}
         /\ session_rows' = [s \in sessions \ {session_id} |-> session_rows[s]]
         /\ UNCHANGED <<messages, nextSid, nextMid>>

\* SessionService.delete_session: the row and, by cascade, its messages
delete_session(session_id, result) ==
    IF session_id \notin sessions
    THEN /\ result = FALSE
         /\ UNCHANGED storeVars
    ELSE /\ result = TRUE
         /\ sessions' = sessions \ {session_id}
         /\ session_rows' = [s \in sessions \ {session_id} |-> session_rows[s]]
         /\ messages' = SelectSeq(messages, LAMBDA m : m.session_id # session_id)
         /\ UNCHANGED <<nextSid, nextMid>>

\* ------------------------------------------------------------------ search
\* nearest-neighbour provider: at most k (doc, score) pairs, in its own order
ProviderResults(k) == SeqsUpTo([doc : Docs, score : Scores], k)

\* the same, the i-th pair carrying the i-th document
DocAt(i) == IF i = 1 THEN "d1" ELSE "d2"
ProviderRanked(k) ==
    {[i \in 1..Len(sc) |-> [doc |-> DocAt(i), score |-> sc[i]]] : sc \in SeqsUpTo(TurnScores, k)}

\* mutant: the filter drops a score equal to the threshold
search_strict(raw, threshold) == SelectSeq(raw, LAMBDA r : r.score > threshold)

\* RAGService.search: the provider's pairs at or above the threshold
search(raw, threshold) == SelectSeq(raw, LAMBDA r : r.score >= threshold)

\* ------------------------------------------------------------- chat turn
NoResponse == [answer |-> "", sources |-> <<>>, confidence |-> 0, session_id |-> None]

IdleTurn ==
    [pc |-> "idle", via |-> "none", request_session_id |-> None,
     question |-> "", max_results |-> 0,
     session_id |-> None, conversation_history |-> <<>>, hist_ids |-> {},
     user_message |-> None, assistant_message |-> None,
     created |-> 0, appends |-> 0, recovered |-> FALSE, had_history |-> FALSE,
     generation |-> "none", response |-> NoResponse, error |-> "none"]

\* ids a caller can supply: none, one handed out earlier, or one never handed out
CallerSessionIds == {None} \cup (1..nextSid) \cup {UnknownId}

\* the arguments POST /api/v1/chat passes to RAGService.chat
ChatHandlerArgs(request) ==
    [question |-> request.question, max_results |-> request.max_results,
     session_id |-> None]

\* RAGService.chat(question, max_results, session_id) up to its first store
\* transaction: if not session_id: create_session
chat_call(t, args, via, request_session_id) ==
    /\ turn[t].pc = "idle"
    /\ IF args.session_id = None
       THEN \E id \in SessionIds :
               /\ create_session(id, NoTitle)
               /\ turn' = [turn EXCEPT ![t] =
                              [@ EXCEPT !.pc = "fetch", !.via = via,
                                        !.request_session_id = request_session_id,
                                        !.question = args.question,
                                        !.max_results = args.max_results,
                                        !.session_id = id, !.created = 1]]
       ELSE /\ turn' = [turn EXCEPT ![t] =
                           [@ EXCEPT !.pc = "fetch", !.via = via,
                                     !.request_session_id = request_session_id,
                                     !.question = args.question,
                                     !.max_results = args.max_results,
                                     !.session_id = args.session_id]]
            /\ UNCHANGED storeVars
    /\ UNCHANGED <<settingVars, searchVars, containerVars>>

\* POST /api/v1/chat
api_chat(t) ==
    \E k \in 1..MaxResults, sid \in CallerSessionIds :
        chat_call(t, ChatHandlerArgs([question |-> QuestionOf(t), max_results |-> k,
                                      session_id |-> sid]), "api", sid)

\* RAGService.chat called with a session id by its caller
rag_chat(t) ==
    \E k \in 1..MaxResults, sid \in CallerSessionIds :
        chat_call(t, [question |-> QuestionOf(t), max_results |-> k, session_id |-> sid],
                  "direct", sid)

\* mutant: the history is fetched after the user message is appended
chat_fetch_history_after_append(t) ==
    /\ turn[t].pc = "fetch"
    /\ \E result \in 0..MaxMessages :
          /\ add_message(turn[t].session_id, "user", turn[t].question, <<>>, result)
          /\ turn' = [turn EXCEPT ![t] =
                         [@ EXCEPT !.pc = IF result = None THEN "recover" ELSE "retrieve",
                                   !.user_message = result, !.appends = 1,
                                   !.conversation_history =
                                       get_conversation_history(messages', turn[t].session_id,
                                                                HistoryLimit),
                                   !.hist_ids =
                                       {m.id : m \in Range(HistoryRows(messages',
                                                                       turn[t].session_id,
                                                                       HistoryLimit))}]]
    /\ UNCHANGED <<settingVars, searchVars, containerVars>>

\* mutant: a turn waits while another turn on the same session is between
\* its history fetch and its return
chat_fetch_history_locked(t) ==
    /\ turn[t].pc = "fetch"
    /\ \A u \in Turns \ {t} :
          ~(turn[u].session_id = turn[t].session_id
              /\ turn[u].pc \in {"append", "recover", "retry", "retrieve"})
    /\ turn' = [turn EXCEPT ![t] =
                   [@ EXCEPT !.pc = "append",
                             !.conversation_history =
                                 get_conversation_history(messages, turn[t].session_id,
                                                          HistoryLimit),
                             !.hist_ids =
                                 {m.id : m \in Range(HistoryRows(messages, turn[t].session_id,
                                                                 HistoryLimit))}]]
    /\ UNCHANGED <<storeVars, settingVars, searchVars, containerVars>>

\* conversation_history = get_conversation_history(session_id, limit=20)
chat_fetch_history(t) ==
    /\ turn[t].pc = "fetch"
    /\ turn' = [turn EXCEPT ![t] =
                   [@ EXCEPT !.pc = "append",
                             !.conversation_history =
                                 get_conversation_history(messages, turn[t].session_id,
                                                          HistoryLimit),
                             !.hist_ids =
                                 {m.id : m \in Range(HistoryRows(messages, turn[t].session_id,
                                                                 HistoryLimit))}]]
    /\ UNCHANGED <<storeVars, settingVars, searchVars, containerVars>>

\* user_message = add_message(session_id, "user", question)
chat_persist_user(t) ==
    /\ turn[t].pc = "append"
    /\ \E result \in 0..MaxMessages :
          /\ add_message(turn[t].session_id, "user", turn[t].question, <<>>, result)
          /\ turn' = [turn EXCEPT ![t] =
                         [@ EXCEPT !.pc = IF result = None THEN "recover" ELSE "retrieve",
                                   !.user_message = result, !.appends = 1]]
    /\ UNCHANGED <<settingVars, searchVars, containerVars>>

\* mutant: the new session is created but the turn keeps the stale session id
chat_recover_create_stale_id(t) ==
    /\ turn[t].pc = "recover"
    /\ \E id \in SessionIds :
          /\ create_session(id, NoTitle)
          /\ turn' = [turn EXCEPT ![t] =
                         [@ EXCEPT !.pc = "retry",
                                   !.created = @ + 1, !.recovered = TRUE,
                                   !.conversation_history = <<>>, !.hist_ids = {}]]
    /\ UNCHANGED <<settingVars, searchVars, containerVars>>

\* if not user_message: create_session; conversation_history = []
chat_recover_create(t) ==
    /\ turn[t].pc = "recover"
    /\ \E id \in SessionIds :
          /\ create_session(id, NoTitle)
          /\ turn' = [turn EXCEPT ![t] =
                         [@ EXCEPT !.pc = "retry", !.session_id = id,
                                   !.created = @ + 1, !.recovered = TRUE,
                                   !.conversation_history = <<>>, !.hist_ids = {}]]
    /\ UNCHANGED <<settingVars, searchVars, containerVars>>

\* mutant: a rejected retry goes back to creating another session
chat_recover_retry_loop(t) ==
    /\ turn[t].pc = "retry"
    /\ \E result \in 0..MaxMessages :
          /\ add_message(turn[t].session_id, "user", turn[t].question, <<>>, result)
          /\ turn' = [turn EXCEPT ![t] =
                         [@ EXCEPT !.pc = IF result = None THEN "recover" ELSE "retrieve",
                                   !.user_message = result, !.appends = @ + 1]]
    /\ UNCHANGED <<settingVars, searchVars, containerVars>>

\* ... user_message = add_message(session_id, "user", question), unchecked
chat_recover_retry(t) ==
    /\ turn[t].pc = "retry"
    /\ \E result \in 0..MaxMessages :
          /\ add_message(turn[t].session_id, "user", turn[t].question, <<>>, result)
          /\ turn' = [turn EXCEPT ![t] =
                         [@ EXCEPT !.pc = "retrieve",
                                   !.user_message = result, !.appends = @ + 1]]
    /\ UNCHANGED <<settingVars, searchVars, containerVars>>

\* mutant: generation is chosen without looking at the search results
GenerationPath_always(search_results, conversation_history) ==
    IF conversation_history # <<>> /\ Len(conversation_history) > 0 THEN "history"
    ELSE "plain"

\* mutant: the history is never looked at, generate_answer is always called
GenerationPath_plain_only(search_results, conversation_history) ==
    IF search_results = <<>> THEN "none" ELSE "plain"

\* the generation call of a turn: none, generate_answer, generate_answer_with_history
GenerationPath(search_results, conversation_history) ==
    IF search_results = <<>> THEN "none"
    ELSE IF conversation_history # <<>> /\ Len(conversation_history) > 0 THEN "history"
    ELSE "plain"

\* answer: the fixed message when nothing was retrieved, else the completion
Answer(search_results) ==
    IF search_results = <<>> THEN no_results_message ELSE LLMAnswer

\* sources: one SourceDocument per search result, in order, with its score
Sources(search_results) ==
    IF search_results = <<>> THEN <<>>
    ELSE [i \in 1..Len(search_results) |->
             [content |-> search_results[i].doc, score |-> search_results[i].score]]

\* mutant: the confidence is taken from the last result
Confidence_last(search_results) ==
    IF search_results = <<>> THEN 0
    ELSE One - search_results[Len(search_results)].score

\* confidence = 1.0 - search_results[0][1] if search_results else 0.0
Confidence(search_results) ==
    IF search_results = <<>> THEN 0
    ELSE IF search_results # <<>> THEN One - search_results[1].score ELSE 0

\* min(max(confidence, 0.0), 1.0)
Clamp(confidence) == Min(Max(confidence, 0), One)

\* ChatResponse(answer, sources, confidence clamped, session_id)
ChatResponse(search_results, session_id) ==
    [answer |-> Answer(search_results), sources |-> Sources(search_results),
     confidence |-> Clamp(Confidence(search_results)), session_id |-> session_id]

\* search, answer generation, add_message(session_id, "assistant", answer,
\* metadata) and return: the turn's locals end with the call
chat_answer(t) ==
    /\ turn[t].pc = "retrieve"
    /\ vector_store
    /\ \E raw \in ProviderRanked(turn[t].max_results), result \in 0..MaxMessages :
          LET search_results == search(raw, similarity_threshold)
          IN  /\ add_message(turn[t].session_id, "assistant", Answer(search_results),
                             <<Confidence(search_results)>>, result)
              /\ turn' = [turn EXCEPT ![t] =
                             [@ EXCEPT !.pc = "returned",
                                       !.assistant_message = result,
                                       !.generation =
                                           GenerationPath(search_results,
                                                          turn[t].conversation_history),
                                       !.response =
                                           ChatResponse(search_results, turn[t].session_id),
                                       !.had_history =
                                           turn[t].conversation_history # <<>>,
                                       !.question = "", !.max_results = 0,
                                       !.conversation_history = <<>>,
                                       !.hist_ids = {}]]
    /\ UNCHANGED <<settingVars, searchVars, containerVars>>

\* mutant: the failing turn takes its user message back
chat_raise_rollback(t) ==
    /\ turn[t].pc = "retrieve"
    /\ \E e \in IF vector_store THEN {"ProviderFailure"} ELSE {"NotReady"} :
          turn' = [turn EXCEPT ![t] =
                      [@ EXCEPT !.pc = "raised", !.error = e,
                                !.question = "", !.max_results = 0,
                                !.conversation_history = <<>>, !.hist_ids = {}]]
    /\ messages' = SelectSeq(messages, LAMBDA m : m.id # turn[t].user_message)
    /\ UNCHANGED <<sessions, nextSid, nextMid, session_rows, settingVars, searchVars,
                   containerVars>>

\* search or the completion provider raises: logged and re-raised
chat_raise(t) ==
    /\ turn[t].pc = "retrieve"
    /\ \E e \in IF vector_store THEN {"ProviderFailure"} ELSE {"NotReady"} :
          turn' = [turn EXCEPT ![t] =
                      [@ EXCEPT !.pc = "raised", !.error = e,
                                !.question = "", !.max_results = 0,
                                !.conversation_history = <<>>, !.hist_ids = {}]]
    /\ UNCHANGED <<storeVars, settingVars, searchVars, containerVars>>

\* ------------------------------------------- other clients of the store
\* POST /api/v1/sessions
client_create_session ==
    /\ \E id \in SessionIds, title \in {NoTitle, "custom"} : create_session(id, title)
    /\ UNCHANGED <<turn, settingVars, searchVars, containerVars>>

\* DELETE /api/v1/sessions/{session_id}
client_delete_session ==
    /\ \E session_id \in (1..nextSid) \cup {UnknownId}, result \in BOOLEAN :
          delete_session(session_id, result)
    /\ UNCHANGED <<turn, settingVars, searchVars, containerVars>>

\* SessionService.add_message called by another client of the store
client_add_message ==
    /\ \E session_id \in (1..nextSid) \cup {UnknownId}, result \in 0..MaxMessages :
          add_message(session_id, "user", "other", <<>>, result)
    /\ UNCHANGED <<turn, settingVars, searchVars, containerVars>>

\* ------------------------------------------------ one call of search
\* RAGService.search(query, max_results): raises when vector_store is unset
search_call ==
    /\ s_pc = "call"
    /\ IF ~vector_store
       THEN /\ s_pc' = "raised"
            /\ UNCHANGED <<s_raw, s_out>>
       ELSE \E raw \in ProviderResults(s_k) :
               /\ s_raw' = raw
               /\ s_out' = search(raw, similarity_threshold)
               /\ s_pc' = "done"
    /\ UNCHANGED <<storeVars, turn, settingVars, s_k, callVars, containerVars>>

\* ------------------------------------------------- RAGServiceContainer
\* if self._rag_service is None:
get_or_create_check(c) ==
    /\ th[c].pc = "check"
    /\ th' = [th EXCEPT ![c].pc = IF _rag_service = None THEN "construct" ELSE "return"]
    /\ UNCHANGED <<storeVars, turn, settingVars, searchVars, _rag_service, constructed, app>>

\* RAGService(settings): a new instance
get_or_create_construct(c) ==
    /\ th[c].pc = "construct"
    /\ constructed' = constructed + 1
    /\ th' = [th EXCEPT ![c] = [@ EXCEPT !.pc = "assign", !.made = constructed + 1]]
    /\ UNCHANGED <<storeVars, turn, settingVars, searchVars, _rag_service, app>>

\* self._rag_service = <the new instance>
get_or_create_assign(c) ==
    /\ th[c].pc = "assign"
    /\ _rag_service' = th[c].made
    /\ th' = [th EXCEPT ![c].pc = "return"]
    /\ UNCHANGED <<storeVars, turn, settingVars, searchVars, constructed, app>>

\* return self._rag_service
get_or_create_return(c) ==
    /\ th[c].pc = "return"
    /\ th' = [th EXCEPT ![c] = [@ EXCEPT !.pc = "done", !.got = _rag_service]]
    /\ UNCHANGED <<storeVars, turn, settingVars, searchVars, _rag_service, constructed, app>>

\* main.lifespan: startup constructs a RAGService of its own, kept nowhere
lifespan ==
    /\ app = "down"
    /\ app' = "running"
    /\ constructed' = constructed + 1
    /\ UNCHANGED <<storeVars, turn, settingVars, searchVars, _rag_service, th>>

\* a chat or health request arrives: Depends(get_rag_service)
request_begin(c) ==
    /\ app = "running"
    /\ th[c].pc = "unused"
    /\ th' = [th EXCEPT ![c].pc = "check"]
    /\ UNCHANGED <<storeVars, turn, settingVars, searchVars, _rag_service, constructed, app>>

\* one call of SessionService.get_conversation_history(session_id, limit)
history_call ==
    /\ call_pc = "history"
    /\ call_pc' = "done"
    /\ call_result' = get_conversation_history(messages, call_args.session_id,
                                               call_args.limit)
    /\ UNCHANGED <<storeVars, turn, settingVars, s_pc, s_raw, s_k, s_out, call_args,
                   containerVars>>

\* ------------------------------------------------------------- routing
\* a route: method, path template and the handler it names
chat_router ==
    {[method |-> "POST", path |-> "/api/v1/chat", handler |-> "chat"],
     [method |-> "GET", path |-> "/api/v1/health", handler |-> "health_check"]}

sessions_router ==
    {[method |-> "POST", path |-> "/api/v1/sessions", handler |-> "create_session"],
     [method |-> "GET", path |-> "/api/v1/sessions", handler |-> "get_sessions"],
     [method |-> "GET", path |-> "/api/v1/sessions/{session_id}", handler |-> "get_session"],
     [method |-> "PUT", path |-> "/api/v1/sessions/{session_id}", handler |-> "update_session"],
     [method |-> "DELETE", path |-> "/api/v1/sessions/{session_id}",
      handler |-> "delete_session"],
     [method |-> "GET", path |-> "/api/v1/sessions/{session_id}/messages",
      handler |-> "get_session_messages"]}

root_route == {[method |-> "GET", path |-> "/", handler |-> "root"]}

\* main.create_app: include_router(chat_router) and the root endpoint
create_app == chat_router \cup root_route

Methods == {"GET", "POST", "PUT", "DELETE"}
Paths == {r.path : r \in chat_router \cup sessions_router \cup root_route} \cup {"/other"}
Requests == [method : Methods, path : Paths]

\* the router's answer: the matching route's handler, 405 when only the path
\* matches, 404 when nothing does
Dispatch(routes, request) ==
    LET full == {r \in routes : r.method = request.method /\ r.path = request.path}
        partial == {r \in routes : r.path = request.path}
    IN  IF full # {} THEN [matched |-> TRUE, handler |-> (CHOOSE r \in full : TRUE).handler,
                           status |-> 0]
        ELSE IF partial # {} THEN [matched |-> FALSE, handler |-> "none", status |-> 405]
        ELSE [matched |-> FALSE, handler |-> "none", status |-> 404]

\* one request to the application built by create_app
dispatch_request ==
    /\ call_pc = "request"
    /\ call_pc' = "done"
    /\ call_result' = Dispatch(create_app, call_args)
    /\ UNCHANGED <<storeVars, turn, settingVars, s_pc, s_raw, s_k, s_out, call_args,
                   containerVars>>

\* ---------------------------------------------------------------- text
\* a str is the sequence of its characters

RECURSIVE Join(_, _)
Join(parts, sep) ==
    IF parts = <<>> THEN <<>>
    ELSE IF Len(parts) = 1 THEN parts[1]
    ELSE parts[1] \o sep \o Join(Tail(parts), sep)

\* number of occurrences of character c in s
Count(s, c) == Cardinality({i \in 1..Len(s) : s[i] = c})

upper(c) ==
    CASE c = "a" -> "A" [] c = "e" -> "E" [] c = "i" -> "I" [] c = "n" -> "N"
      [] c = "r" -> "R" [] c = "s" -> "S" [] c = "t" -> "T" [] c = "u" -> "U"
      [] OTHER -> c

\* str.upper()
Upper(s) == [i \in 1..Len(s) |-> upper(s[i])]

role_user == <<"u", "s", "e", "r">>
role_assistant == <<"a", "s", "s", "i", "s", "t", "a", "n", "t">>
Roles == {role_user, role_assistant}

\* the content of the i-th message of a history: one character per position
IndexChars == <<"0", "1", "2", "3", "4", "5", "6", "7", "8", "9", "b", "c", "d", "f", "g", "h">>
ContentOf(i) == <<"m", IndexChars[i]>>

HistoriesUpTo(max) ==
    UNION {{[i \in 1..n |-> [role |-> r[i], content |-> ContentOf(i)]] : r \in [1..n -> Roles]}
           : n \in 0..max}

Histories == HistoriesUpTo(MaxHistory)

\* mutant: the first n entries instead of the last n
PyLast_head(s, n) == Take(s, n)

\* s[-n:] for n > 0
PyLast(s, n) == IF Len(s) <= n THEN s ELSE SubSeq(s, Len(s) - n + 1, Len(s))

\* f"{msg['role'].upper()}: {msg['content']}"
HistoryLine(msg) == Upper(msg.role) \o <<":", " ">> \o msg.content

\* the list comprehension over conversation_history[-10:]
HistoryLines(conversation_history) ==
    LET last == PyLast(conversation_history, RenderLimit)
    IN  [i \in 1..Len(last) |-> HistoryLine(last[i])]

\* history_text of generate_answer_with_history
HistoryText(conversation_history) ==
    IF conversation_history = <<>> THEN <<>>
    ELSE Join(HistoryLines(conversation_history), <<"\n">>)

\* generate_answer_with_history up to history_text
render_history ==
    /\ call_pc = "render"
    /\ call_pc' = "done"
    /\ call_result' =
          [rendered |-> IF call_args.conversation_history = <<>> THEN <<>>
                        ELSE HistoryLines(call_args.conversation_history),
           history_text |-> HistoryText(call_args.conversation_history)]
    /\ UNCHANGED <<storeVars, turn, settingVars, s_pc, s_raw, s_k, s_out, call_args,
                   containerVars>>

\* ------------------------------------------------------------- context
\* the context string of generate_answer and generate_answer_with_history

\* a retrieved Document: page_content and metadata, with or without "section"
PageContents == {<<"x">>, <<"x", "y", "z", "w">>, <<"z", ".", ".", ".">>}
Metadatas == {[source |-> "spec"], [source |-> "spec", section |-> <<>>],
              [source |-> "spec", section |-> <<"S">>]}
Documents == {[page_content |-> c, metadata |-> m] : c \in PageContents, m \in Metadatas}
MaxContextLengths == {4, 8, 16, 32}

Ellipsis == <<".", ".", ".">>

\* the default section has two characters, written "F" and "M" here
UnknownSection == <<"F", "M">>

\* doc.metadata.get("section", UnknownSection)
SectionOf(doc) ==
    IF "section" \in DOMAIN doc.metadata THEN doc.metadata.section ELSE UnknownSection

\* context_section_format.format(section=..., content=...); the two lenticular
\* brackets of the format are written "[" and "]" here
context_section_format(section, content) ==
    <<"[">> \o section \o <<"]", "\n">> \o content

\* "\n\n".join([... for doc in context_documents])
RenderContext(context_documents) ==
    Join([i \in 1..Len(context_documents) |->
              context_section_format(SectionOf(context_documents[i]),
                                     context_documents[i].page_content)],
         <<"\n", "\n">>)

\* s[:n], n of either sign
PySlicePrefix(s, n) ==
    IF n >= 0 THEN Take(s, n)
    ELSE IF Len(s) + n <= 0 THEN <<>>
    ELSE SubSeq(s, 1, Len(s) + n)

\* mutant: the context is never cut
Truncate_never(context, limit) == context

\* if len(context) > limit: context = context[:limit] + "..."
Truncate(context, limit) ==
    IF Len(context) > limit THEN PySlicePrefix(context, limit) \o Ellipsis ELSE context

\* generate_answer up to the completion call
generate_answer ==
    /\ call_pc = "context"
    /\ call_pc' = "done"
    /\ LET rendering == RenderContext(call_args.context_documents)
       IN  call_result' =
             [via |-> "plain", history_text |-> <<>>, rendering |-> rendering,
              context |-> Truncate(rendering, call_args.max_context_length)]
    /\ UNCHANGED <<storeVars, turn, settingVars, s_pc, s_raw, s_k, s_out, call_args,
                   containerVars>>

\* generate_answer_with_history up to the completion call
generate_answer_with_history ==
    /\ call_pc = "context"
    /\ call_pc' = "done"
    /\ LET history_text == HistoryText(call_args.conversation_history)
           rendering == RenderContext(call_args.context_documents)
           max_context_with_history == call_args.max_context_length - Len(history_text)
       IN  call_result' =
             [via |-> "history", history_text |-> history_text, rendering |-> rendering,
              context |-> Truncate(rendering, max_context_with_history)]
    /\ UNCHANGED <<storeVars, turn, settingVars, s_pc, s_raw, s_k, s_out, call_args,
                   containerVars>>

\* ------------------------------------------------------------- chunker
\* DocumentLoader._create_chunks_from_lines.  A line is its kind and its
\* length; "h1" matches ^## \*\*\d+, "h2" matches ^### \*\*\d+, "blank" is
\* empty or whitespace.  Lines are named by their position in the input, and
\* a section tag is the position of the header line whose text it is (0: "").
Lines ==
    {[kind |-> "h1", len |-> 6], [kind |-> "h2", len |-> 7],
     [kind |-> "text", len |-> 2], [kind |-> "text", len |-> 5],
     [kind |-> "blank", len |-> 0], [kind |-> "blank", len |-> 1]}
ChunkSizes == {1, 6, 12}

RECURSIVE SumLen(_, _)
SumLen(lines, idxs) ==
    IF idxs = <<>> THEN 0 ELSE lines[Head(idxs)].len + SumLen(lines, Tail(idxs))

\* len('\n'.join(chunk))
JoinedLen(lines, idxs) ==
    IF idxs = <<>> THEN 0 ELSE SumLen(lines, idxs) + Len(idxs) - 1

\* mutant: the joining newlines are not counted
should_create_chunk_no_newlines(lines, current_chunk, chunk_size) ==
    SumLen(lines, current_chunk) > chunk_size

\* _should_create_chunk
should_create_chunk(lines, current_chunk, chunk_size) ==
    JoinedLen(lines, current_chunk) > chunk_size

\* chunk_content.strip() is empty
StripsToEmpty(lines, idxs) == \A j \in 1..Len(idxs) : lines[idxs[j]].kind = "blank"

\* _create_chunk_dict; closed_by: the line whose append closed the chunk (0: end of input)
create_chunk_dict(content, section, subsection, closed_by) ==
    [content |-> content, section |-> section, subsection |-> subsection,
     closed_by |-> closed_by]

\* mutant: the new buffer starts empty
NewBuffer_empty(i) == <<>>

\* current_chunk = [line]
NewBuffer(i) == <<i>>

\* if is_main_section: current_section = the line
NextSection(line, i, current_section) ==
    IF line.kind = "h1" THEN i ELSE current_section

\* mutant: a level-1 header leaves the subsection as it was
NextSubsection_no_reset(line, i, current_subsection) ==
    IF line.kind = "h2" THEN i ELSE current_subsection

\* if is_main_section: current_subsection = ""; elif is_subsection: the line
NextSubsection(line, i, current_subsection) ==
    IF line.kind = "h1" THEN 0
    ELSE IF line.kind = "h2" THEN i
    ELSE current_subsection

ChunkerStart ==
    [i |-> 1, current_section |-> 0, current_subsection |-> 0,
     chunks |-> <<>>, current_chunk |-> <<>>]

\* one iteration of: for line in lines
chunk_line ==
    /\ call_pc = "chunk"
    /\ call_result.i <= Len(call_args.lines)
    /\ LET lines == call_args.lines
           i == call_result.i
           line == lines[i]
           current_section == NextSection(line, i, call_result.current_section)
           current_subsection == NextSubsection(line, i, call_result.current_subsection)
           current_chunk == Append(call_result.current_chunk, i)
           closed == SubSeq(current_chunk, 1, Len(current_chunk) - 1)
       IN  call_result' =
             IF should_create_chunk(lines, current_chunk, call_args.chunk_size)
             THEN [i |-> i + 1, current_section |-> current_section,
                   current_subsection |-> current_subsection,
                   chunks |-> IF StripsToEmpty(lines, closed) THEN call_result.chunks
                              ELSE Append(call_result.chunks,
                                          create_chunk_dict(closed, current_section,
                                                            current_subsection, i)),
                   current_chunk |-> NewBuffer(i)]
             ELSE [i |-> i + 1, current_section |-> current_section,
                   current_subsection |-> current_subsection,
                   chunks |-> call_result.chunks,
                   current_chunk |-> current_chunk]
    /\ UNCHANGED <<storeVars, turn, settingVars, s_pc, s_raw, s_k, s_out, call_pc,
                   call_args, containerVars>>

\* after the loop: the last chunk
chunk_flush ==
    /\ call_pc = "chunk"
    /\ call_result.i > Len(call_args.lines)
    /\ call_pc' = "done"
    /\ call_result' =
          [call_result EXCEPT
              !.chunks = IF call_result.current_chunk # <<>>
                            /\ ~StripsToEmpty(call_args.lines, call_result.current_chunk)
                         THEN Append(@, create_chunk_dict(call_result.current_chunk,
                                                          call_result.current_section,
                                                          call_result.current_subsection, 0))
                         ELSE @]
    /\ UNCHANGED <<storeVars, turn, settingVars, s_pc, s_raw, s_k, s_out, call_args,
                   containerVars>>

\* ------------------------------------------------------- specification
CallIdle ==
    /\ call_pc = "unused" /\ call_args = <<>> /\ call_result = <<>>

SearchUnused ==
    /\ s_pc = "unused" /\ s_raw = <<>> /\ s_k = 0 /\ s_out = <<>>

SearchIdle ==
    /\ SearchUnused
    /\ CallIdle

ContainerIdle ==
    /\ _rag_service = None /\ constructed = 0 /\ app = "down"
    /\ th = [c \in Threads |-> [pc |-> "unused", made |-> None, got |-> None]]

StoreEmpty ==
    /\ sessions = {} /\ messages = <<>> /\ nextSid = 0 /\ nextMid = 0
    /\ session_rows = <<>>

TurnsIdle == turn = [t \in Turns |-> IdleTurn]

\* chat turns and other clients of the store, interleaved
\* nothing but the one function call of the specification is in progress
OnlyCall ==
    /\ StoreEmpty
    /\ TurnsIdle
    /\ similarity_threshold = DefaultSimilarityThreshold
    /\ vector_store = TRUE
    /\ SearchUnused
    /\ ContainerIdle

Init ==
    /\ StoreEmpty
    /\ TurnsIdle
    /\ similarity_threshold = DefaultSimilarityThreshold
    /\ vector_store \in BOOLEAN
    /\ SearchIdle
    /\ ContainerIdle

TurnStep(t) ==
    \/ api_chat(t)
    \/ rag_chat(t)
    \/ chat_fetch_history(t)
    \/ chat_persist_user(t)
    \/ chat_recover_create(t)
    \/ chat_recover_retry(t)
    \/ chat_answer(t)
    \/ chat_raise(t)

Next ==
    \/ \E t \in Turns : TurnStep(t)
    \/ client_create_session
    \/ client_delete_session

Spec == Init /\ [][Next]_vars

\* the conversation store under a chat turn and other clients' operations,
\* each store operation atomic
NextStore ==
    \/ TurnStep(1)
    \/ client_create_session
    \/ client_delete_session
    \/ client_add_message

SpecStore == Init /\ [][NextStore]_vars

\* one chat turn among other clients' deletions; every call the turn makes
\* returns, so the turn keeps taking its next step
NextTurn ==
    \/ TurnStep(1)
    \/ client_delete_session

SpecTurn == Init /\ [][NextTurn]_vars /\ WF_vars(TurnStep(1))

\* one caller at a time: no store operation runs inside another caller's turn
InProgress(t) == turn[t].pc \notin {"idle", "returned", "raised"}

NextSeq ==
    \/ \E t \in Turns : (\A u \in Turns \ {t} : ~InProgress(u)) /\ TurnStep(t)
    \/ (\A u \in Turns : ~InProgress(u)) /\ client_create_session
    \/ (\A u \in Turns : ~InProgress(u)) /\ client_delete_session

SpecSeq == Init /\ [][NextSeq]_vars

\* one call of search, for every query size, threshold and provider answer
InitSearch ==
    /\ StoreEmpty
    /\ TurnsIdle
    /\ similarity_threshold \in Thresholds
    /\ vector_store \in BOOLEAN
    /\ s_pc = "call" /\ s_raw = <<>> /\ s_out = <<>>
    /\ s_k \in 1..MaxResults
    /\ CallIdle
    /\ ContainerIdle

NextSearch == search_call

SpecSearch == InitSearch /\ [][NextSearch]_vars

\* concurrent callers of get_or_create_rag_service on an empty container
InitContainer ==
    /\ StoreEmpty
    /\ TurnsIdle
    /\ similarity_threshold = DefaultSimilarityThreshold
    /\ vector_store = TRUE
    /\ SearchIdle
    /\ _rag_service = None /\ constructed = 0 /\ app = "running"
    /\ th = [c \in Threads |-> [pc |-> "check", made |-> None, got |-> None]]

NextContainer ==
    \/ \E c \in Threads : get_or_create_check(c)
    \/ \E c \in Threads : get_or_create_construct(c)
    \/ \E c \in Threads : get_or_create_assign(c)
    \/ \E c \in Threads : get_or_create_return(c)

SpecContainer == InitContainer /\ [][NextContainer]_vars

\* the rows a store can hold: ids in insertion order, any session, any role
StoredMessages ==
    UNION {{[i \in 1..n |-> [session_id |-> sid[i], role |-> role[i],
                             content |-> ContentOf(i), id |-> i, metadata |-> <<>>]]
            : sid \in [1..n -> SessionIds], role \in [1..n -> {"user", "assistant"}]}
           : n \in 0..MaxMessages}

\* one call of get_conversation_history, for every store, session and limit
InitHistory ==
    /\ sessions = SessionIds /\ nextSid = MaxSessions
    /\ session_rows = [s \in SessionIds |-> NewRow(NoTitle)]
    /\ messages \in StoredMessages /\ nextMid = Len(messages)
    /\ TurnsIdle
    /\ similarity_threshold = DefaultSimilarityThreshold
    /\ vector_store = TRUE
    /\ SearchUnused
    /\ ContainerIdle
    /\ call_pc = "history"
    /\ call_args \in {[session_id |-> sid, limit |-> limit]
                        : sid \in SessionIds \cup {UnknownId}, limit \in 0..MaxLimit}
    /\ call_result = <<>>

NextHistory == history_call

SpecHistory == InitHistory /\ [][NextHistory]_vars

\* one call of _create_chunks_from_lines, for every input and chunk_size
InitChunker ==
    /\ OnlyCall
    /\ call_pc = "chunk"
    /\ call_args \in {[lines |-> lines, chunk_size |-> chunk_size]
                        : lines \in SeqsUpTo(Lines, MaxLines), chunk_size \in ChunkSizes}
    /\ call_result = ChunkerStart

NextChunker ==
    \/ chunk_line
    \/ chunk_flush

SpecChunker == InitChunker /\ [][NextChunker]_vars

\* one call of generate_answer or generate_answer_with_history, for every
\* list of documents, history and max_context_length
InitContext ==
    /\ OnlyCall
    /\ call_pc = "context"
    /\ call_args \in {[context_documents |-> docs, conversation_history |-> h,
                        max_context_length |-> max]
                        : docs \in SeqsUpTo(Documents, MaxChunks),
                          h \in HistoriesUpTo(MaxContextHistory),
                          max \in MaxContextLengths}
    /\ call_result = <<>>

NextContext ==
    \/ generate_answer
    \/ generate_answer_with_history

SpecContext == InitContext /\ [][NextContext]_vars

\* one request to the application, for every method and path, the vector
\* store ready or not
InitRoutes ==
    /\ StoreEmpty
    /\ TurnsIdle
    /\ similarity_threshold \in Thresholds
    /\ vector_store \in BOOLEAN
    /\ SearchUnused
    /\ ContainerIdle
    /\ call_pc = "request"
    /\ call_args \in Requests
    /\ call_result = <<>>

NextRoutes == dispatch_request

SpecRoutes == InitRoutes /\ [][NextRoutes]_vars

\* one call of generate_answer_with_history, for every history
InitRender ==
    /\ OnlyCall
    /\ call_pc = "render"
    /\ call_args \in {[conversation_history |-> h] : h \in Histories}
    /\ call_result = <<>>

NextRender == render_history

SpecRender == InitRender /\ [][NextRender]_vars

\* a process run: startup (lifespan), then chat and health requests, each
\* resolving its RAGService through the container; no reset
InitProcess ==
    /\ StoreEmpty
    /\ TurnsIdle
    /\ similarity_threshold = DefaultSimilarityThreshold
    /\ vector_store = TRUE
    /\ SearchIdle
    /\ ContainerIdle

NextProcess ==
    \/ lifespan
    \/ \E c \in Threads : request_begin(c)
    \/ \E c \in Threads : get_or_create_check(c)
    \/ \E c \in Threads : get_or_create_construct(c)
    \/ \E c \in Threads : get_or_create_assign(c)
    \/ \E c \in Threads : get_or_create_return(c)

SpecProcess == InitProcess /\ [][NextProcess]_vars

\* ================================================================ claims
Returned(t) == turn[t].pc = "returned"

\* C1: in every chat turn the history is fetched before the turn's own user
\* message is appended: every message of the fetched history was stored before
\* the turn's user message, and that message is never part of the history.
C1_HistoryExcludesOwnQuestion ==
    \A t \in Turns :
        /\ turn[t].pc \in {"fetch", "append"} => turn[t].user_message = None
        /\ turn[t].user_message # None =>
              /\ turn[t].user_message \notin turn[t].hist_ids
              /\ \A id \in turn[t].hist_ids : id < turn[t].user_message
        /\ Len(turn[t].conversation_history) = Cardinality(turn[t].hist_ids)

\* C1 witness: a turn holds a non-empty fetched history and has appended its
\* user message.
C1_Witness ==
    \E t \in Turns :
        /\ turn[t].pc = "retrieve"
        /\ turn[t].user_message # None
        /\ turn[t].hist_ids # {}

\* C2: a turn called with the id of no stored session recovers inside the turn:
\* the rejected append leads to a new session, the history becomes empty, the
\* user message is appended to the new session, and the turn returns the new
\* session's id (it raises only for a provider failure).
C2_RecoveryStep(t) ==
    /\ (turn[t].pc = "append" /\ turn[t].session_id \notin sessions
            /\ turn'[t] # turn[t]) =>
          /\ turn'[t].pc = "recover"
          /\ messages' = messages
    /\ (turn[t].pc = "recover" /\ turn'[t] # turn[t]) =>
          /\ turn'[t].pc = "retry"
          /\ turn'[t].session_id \notin sessions
          /\ turn'[t].session_id \in sessions'
          /\ turn'[t].conversation_history = <<>>
    /\ (turn[t].pc = "retry" /\ turn'[t] # turn[t]) =>
          /\ turn'[t].pc = "retrieve"
          /\ turn'[t].user_message # None
          /\ messages' = Append(messages,
                                [id |-> turn'[t].user_message,
                                 session_id |-> turn[t].session_id,
                                 role |-> "user", content |-> turn[t].question,
                                 metadata |-> <<>>])
    /\ (turn[t].pc = "retrieve" /\ turn[t].recovered /\ turn'[t] # turn[t]) =>
          \/ /\ turn'[t].pc = "returned"
             /\ turn'[t].response.session_id = turn[t].session_id
             /\ turn'[t].response.session_id # turn[t].request_session_id
             /\ turn'[t].generation # "history"
          \/ /\ turn'[t].pc = "raised"
             /\ turn'[t].error \in {"NotReady", "ProviderFailure"}

C2_RecoveredInsideTurn == [][\A t \in Turns : C2_RecoveryStep(t)]_vars

\* C2 witness: a recovered turn has returned, its user message stored in the
\* session named by its response.
C2_Witness ==
    \E t \in Turns :
        /\ Returned(t)
        /\ turn[t].recovered
        /\ turn[t].request_session_id # None
        /\ \E i \in 1..Len(messages) :
              /\ messages[i].id = turn[t].user_message
              /\ messages[i].session_id = turn[t].response.session_id

\* C3: no turn returns a normal response when its retried user-message append
\* was rejected.
C3_RetryMustSucceed ==
    \A t \in Turns :
        (Returned(t) /\ turn[t].recovered) => turn[t].user_message # None

\* C4: a request to POST /api/v1/chat that carries the id of an existing
\* session is answered inside that session.
C4_HandlerPassesSessionId ==
    \A t \in Turns :
        (/\ Returned(t)
         /\ turn[t].via = "api"
         /\ turn[t].request_session_id \in sessions
         /\ ~turn[t].recovered)
        => turn[t].response.session_id = turn[t].request_session_id

\* the positions of a sequence whose score is at or above the threshold
Passing(raw, threshold) == {i \in 1..Len(raw) : raw[i].score >= threshold}

\* out lists exactly the elements of raw at the positions P, in raw's order
ListsExactly(out, raw, P) ==
    /\ Len(out) = Cardinality(P)
    /\ \E f \in [1..Len(out) -> P] :
          /\ \A i, j \in 1..Len(out) : i < j => f[i] < f[j]
          /\ \A i \in 1..Len(out) : out[i] = raw[f[i]]

\* C5: search returns exactly the provider results whose score is at or above
\* similarity_threshold, and the empty list, not an error, when none is.
C5_SearchFiltersExactly ==
    /\ s_pc = "done" =>
          /\ ListsExactly(s_out, s_raw, Passing(s_raw, similarity_threshold))
          /\ \A i \in 1..Len(s_out) : s_out[i].score >= similarity_threshold
          /\ Passing(s_raw, similarity_threshold) = {} => s_out = <<>>
    /\ s_pc = "raised" => ~vector_store

\* C5 witness: a search kept a result at the threshold and dropped one below it.
C5_Witness ==
    /\ s_pc = "done"
    /\ Len(s_raw) = 2
    /\ Len(s_out) = 1
    /\ s_out[1].score = similarity_threshold

\* C5 witness of the empty answer: results existed, none reached the threshold.
C5_WitnessEmpty ==
    /\ s_pc = "done"
    /\ s_raw # <<>>
    /\ s_out = <<>>

SortedDescending(out) ==
    \A i, j \in 1..Len(out) : i < j => out[i].score >= out[j].score

\* C6: for every order of the provider's results, the sequence search returns
\* is sorted by score descending.
C6_SearchSortedDescending ==
    s_pc = "done" => SortedDescending(s_out)

MaxScore(sources) ==
    CHOOSE m \in {sources[i].score : i \in 1..Len(sources)} :
        \A i \in 1..Len(sources) : sources[i].score <= m

\* C7: the confidence of a completed turn with non-empty retrieval is
\* clamp(1.0 - s, 0.0, 1.0), s the highest score among the returned results,
\* and lies within [0.0, 1.0].
C7_ConfidenceFromHighestScore ==
    \A t \in Turns :
        Returned(t) =>
            /\ turn[t].response.confidence >= 0
            /\ turn[t].response.confidence <= One
            /\ turn[t].response.sources # <<>> =>
                  turn[t].response.confidence =
                      Min(Max(One - MaxScore(turn[t].response.sources), 0), One)

\* C8 as stated: the returned confidence is 0.0 exactly when retrieval is empty.
C8_ZeroIffEmpty ==
    \A t \in Turns :
        Returned(t) =>
            (turn[t].response.confidence = 0 <=> turn[t].response.sources = <<>>)

\* C8 amended: the returned confidence is 0.0 when retrieval is empty; when it
\* is not, it is above 0.0 exactly when the first result's score is below 1.0.
C8_ZeroWhenEmptyOrFirstScoreAtLeastOne ==
    \A t \in Turns :
        Returned(t) =>
            /\ turn[t].response.sources = <<>> => turn[t].response.confidence = 0
            /\ turn[t].response.sources # <<>> =>
                  (turn[t].response.confidence > 0
                       <=> turn[t].response.sources[1].score < One)

\* C8 witness: a turn returned confidence 0.0 with a non-empty retrieval.
C8_Witness ==
    \E t \in Turns :
        /\ Returned(t)
        /\ turn[t].response.sources # <<>>
        /\ turn[t].response.sources[1].score >= One
        /\ turn[t].response.confidence = 0

\* C9: when search returns no results the turn calls neither generation
\* function and returns the fixed no-results message, no sources and
\* confidence 0.0, whatever the history.
C9_NoResultsSkipsGeneration ==
    \A t \in Turns :
        (Returned(t) /\ turn[t].response.sources = <<>>) =>
            /\ turn[t].generation = "none"
            /\ turn[t].response.answer = no_results_message
            /\ turn[t].response.confidence = 0

\* C9 witness: a turn with a non-empty history returned without results.
C9_Witness ==
    \E t \in Turns :
        /\ Returned(t)
        /\ turn[t].response.sources = <<>>
        /\ turn[t].had_history

\* C10: with concurrent callers on an empty container RAGService is
\* constructed once and every caller gets the same instance.
C10_ConstructedOnce ==
    /\ constructed <= 1
    /\ \A c, d \in Threads :
          (th[c].pc = "done" /\ th[d].pc = "done") => th[c].got = th[d].got

\* C11: over a process run (startup, then requests, no reset) exactly one
\* RAGService is ever constructed and every request is served by it.
C11_OneInstancePerProcess ==
    /\ constructed <= 1
    /\ \A c \in Threads : th[c].pc = "done" => th[c].got = 1

\* C12: when retrieval is non-empty a turn calls generate_answer_with_history
\* if and only if its history is non-empty and generate_answer otherwise; the
\* first turn of a session created by the turn, and every recovered turn, call
\* generate_answer.
C12_HistoryPathIffHistory ==
    \A t \in Turns :
        (Returned(t) /\ turn[t].response.sources # <<>>) =>
            /\ turn[t].generation = IF turn[t].had_history THEN "history" ELSE "plain"
            /\ turn[t].recovered => turn[t].generation = "plain"
            /\ (turn[t].created = 1 /\ ~turn[t].recovered) => turn[t].generation = "plain"

\* C12 witness: the first turn of a session the turn created returned sources
\* after the plain call, and a later turn on a session with earlier messages
\* returned sources after the history-aware call.
C12_Witness ==
    /\ \E t \in Turns :
          /\ Returned(t) /\ turn[t].response.sources # <<>>
          /\ turn[t].had_history /\ turn[t].generation = "history"
    /\ \E t \in Turns :
          /\ Returned(t) /\ turn[t].response.sources # <<>>
          /\ turn[t].created = 1 /\ ~turn[t].recovered /\ turn[t].generation = "plain"

\* C13: generate_answer_with_history renders the last 10 entries of the
\* history it is given (all of them if fewer), in their order, one
\* "<ROLE>: <content>" line each, and never more than 10.
C13_RendersLastTen ==
    call_pc = "done" =>
        LET h == call_args.conversation_history
            n == Len(h)
            k == IF n < 10 THEN n ELSE 10
            out == call_result
        IN  /\ Len(out.rendered) = k
            /\ \A j \in 1..k :
                  out.rendered[j] = Upper(h[n - k + j].role) \o <<":", " ">>
                                        \o h[n - k + j].content
            /\ out.history_text = Join(out.rendered, <<"\n">>)
            /\ Count(out.history_text, "\n") = IF k = 0 THEN 0 ELSE k - 1

\* C13 witness: a history of more than 10 entries was rendered.
C13_Witness ==
    /\ call_pc = "done"
    /\ Len(call_args.conversation_history) > 10
    /\ Len(call_result.rendered) = 10

\* C14: for every session and every limit, get_conversation_history returns
\* the min(limit, n) most recent messages of the session as {role, content}
\* pairs, oldest first: never more than limit entries, none of another session.
C14_ReturnsMinLimitMostRecent ==
    call_pc = "done" =>
        LET own == MessagesOf(messages, call_args.session_id)
            n == Len(own)
            k == IF call_args.limit < n THEN call_args.limit ELSE n
        IN  /\ Len(call_result) = k
            /\ Len(call_result) <= call_args.limit
            /\ \A j \in 1..Len(call_result) :
                  /\ n - k + j \in 1..n
                  /\ call_result[j] = [role |-> own[n - k + j].role,
                                       content |-> own[n - k + j].content]

\* the lines of all chunks, in chunk order
RECURSIVE ChunkedLines(_)
ChunkedLines(chunks) ==
    IF chunks = <<>> THEN <<>> ELSE Head(chunks).content \o ChunkedLines(Tail(chunks))

NonBlank(lines, idxs) == SelectSeq(idxs, LAMBDA j : lines[j].kind # "blank")

\* C15: the chunks cover every non-blank input line exactly once, in input
\* order, for every input and every positive chunk_size, lines longer than
\* chunk_size included.
C15_CoversNonBlankLinesOnce ==
    (call_pc = "done" /\ "chunk_size" \in DOMAIN call_args) =>
        LET lines == call_args.lines
        IN  NonBlank(lines, ChunkedLines(call_result.chunks))
              = NonBlank(lines, [j \in 1..Len(lines) |-> j])

\* C15 witness: an input with a line longer than chunk_size, followed by
\* another non-blank line, was split into at least two chunks.
C15_Witness ==
    /\ call_pc = "done" /\ "chunk_size" \in DOMAIN call_args
    /\ Len(call_result.chunks) >= 2
    /\ \E j \in 1..Len(call_args.lines) - 1 :
          /\ call_args.lines[j].len > call_args.chunk_size
          /\ call_args.lines[j].kind # "blank"
          /\ call_args.lines[j + 1].kind # "blank"

\* the section and the subsection in force once lines 1..j are processed
SectionAfter(lines, j) ==
    LET hs == {h \in 1..j : lines[h].kind = "h1"}
    IN  IF hs = {} THEN 0 ELSE CHOOSE h \in hs : \A g \in hs : g <= h

SubsectionAfter(lines, j) ==
    LET hs == {h \in SectionAfter(lines, j) + 1..j : lines[h].kind = "h2"}
    IN  IF hs = {} THEN 0 ELSE CHOOSE h \in hs : \A g \in hs : g <= h

\* C16: a chunk closed because appending line i overflowed the buffer is
\* tagged with the section and subsection in force before line i was
\* processed, whatever kind of line i is.
C16_ClosedChunkTaggedBeforeLine ==
    "chunk_size" \in DOMAIN call_args =>
        \A c \in Range(call_result.chunks) :
            c.closed_by # 0 =>
                /\ c.section = SectionAfter(call_args.lines, c.closed_by - 1)
                /\ c.subsection = SubsectionAfter(call_args.lines, c.closed_by - 1)

\* C17: every chunk's section tag is the most recent level-1 header at or
\* before the chunk's first line, or empty if there is none.
C17_SectionOfFirstLine ==
    "chunk_size" \in DOMAIN call_args =>
        \A c \in Range(call_result.chunks) :
            c.section = SectionAfter(call_args.lines, c.content[1])

EndsWithEllipsis(s) == Len(s) >= 3 /\ SubSeq(s, Len(s) - 2, Len(s)) = <<".", ".", ".">>

PlainDone == call_pc = "done" /\ "context_documents" \in DOMAIN call_args
                 /\ call_result.via = "plain"

\* C18 as stated: the context of generate_answer is at most
\* max_context_length + 3 long and ends with "..." if and only if the joined
\* rendering exceeded max_context_length, when it is the first
\* max_context_length characters followed by "...".
C18_EllipsisIffExceeded ==
    PlainDone =>
        LET max == call_args.max_context_length
        IN  /\ Len(call_result.context) <= max + 3
            /\ EndsWithEllipsis(call_result.context) <=> Len(call_result.rendering) > max
            /\ Len(call_result.rendering) > max =>
                  call_result.context = SubSeq(call_result.rendering, 1, max) \o <<".", ".", ".">>

\* C18 amended: the context is at most max_context_length + 3 long; when the
\* joined rendering exceeds max_context_length it is the first
\* max_context_length characters followed by "...", otherwise it is the
\* rendering unchanged (which may itself end with "...").
C18_TruncatedOrUnchanged ==
    PlainDone =>
        LET max == call_args.max_context_length
        IN  /\ Len(call_result.context) <= max + 3
            /\ Len(call_result.rendering) > max =>
                  call_result.context = SubSeq(call_result.rendering, 1, max) \o <<".", ".", ".">>
            /\ Len(call_result.rendering) <= max =>
                  call_result.context = call_result.rendering

\* C18 witness: a rendering of two chunks longer than max_context_length was cut.
C18_Witness ==
    /\ PlainDone
    /\ Len(call_args.context_documents) = 2
    /\ Len(call_result.rendering) > call_args.max_context_length
    /\ Len(call_result.context) = call_args.max_context_length + 3

\* C19: in generate_answer_with_history the history text and the context
\* together are at most max_context_length + 3 long.
C19_HistoryPlusContextBounded ==
    (call_pc = "done" /\ "context_documents" \in DOMAIN call_args
        /\ call_result.via = "history") =>
        Len(call_result.history_text) + Len(call_result.context)
            <= call_args.max_context_length + 3

\* C20: in every reachable state of the store every message's session_id is
\* the id of a stored session: add_message stores nothing for an absent
\* session and delete_session removes the messages of the deleted session.
C20_MessagesReferenceStoredSessions ==
    \A i \in 1..Len(messages) : messages[i].session_id \in sessions

\* C20 witness: a session that held messages was deleted while another
\* session still holds one, and a turn's append was rejected.
C20_Witness ==
    /\ nextMid > Len(messages)
    /\ Len(messages) > 0
    /\ \E sid \in 1..nextSid : sid \notin sessions
    /\ turn[1].recovered

Raised(t) == turn[t].pc = "raised"

\* C21: when a turn fails after its user message was appended (search raises
\* on an unset vector store, or the completion provider raises) the exception
\* reaches the caller and the failing step rolls nothing back: the sessions
\* and messages of the store, the turn's user message among them, stay as
\* they were, and the turn has added no assistant message.
C21_FailureRollsNothingBack ==
    [][\A t \in Turns :
          (~Raised(t) /\ Raised(t)') =>
              /\ turn[t].pc = "retrieve"
              /\ turn[t].appends >= 1
              /\ turn'[t].error = (IF vector_store THEN "ProviderFailure" ELSE "NotReady")
              /\ sessions' = sessions
              /\ messages' = messages
              /\ turn'[t].assistant_message = None
              /\ \A i \in 1..Len(messages') :
                    messages'[i].role = "assistant" =>
                        \E j \in 1..Len(messages) : messages[j].id = messages'[i].id]_vars

\* C21 witness: a turn raised and its session and user message are stored,
\* with no assistant message after the user message.
C21_Witness ==
    \E t \in Turns :
        /\ Raised(t)
        /\ turn[t].session_id \in sessions
        /\ \E i \in 1..Len(messages) :
              /\ messages[i].id = turn[t].user_message
              /\ messages[i].session_id = turn[t].session_id
              /\ messages[i].role = "user"
              /\ i = Len(messages)

\* C22: turns on the same session are not mutually excluded: a turn that is
\* about to fetch its history can always do so, whatever the other turns on
\* its session are doing, so two turns can both fetch before either appends.
C22_TurnsNotExcluded ==
    \A t \in Turns : turn[t].pc = "fetch" => ENABLED chat_fetch_history(t)

\* C22 witness: two turns on one existing session have both appended their
\* questions, and neither turn's history holds the other's question.
C22_Witness ==
    \E t, u \in Turns :
        /\ t # u
        /\ turn[t].pc = "retrieve" /\ turn[u].pc = "retrieve"
        /\ turn[t].session_id = turn[u].session_id
        /\ turn[t].created = 0 /\ turn[u].created = 0
        /\ turn[u].user_message \notin turn[t].hist_ids
        /\ turn[t].user_message \notin turn[u].hist_ids
        /\ \E i, j \in 1..Len(messages) :
              /\ messages[i].id = turn[t].user_message
              /\ messages[j].id = turn[u].user_message
              /\ messages[i].session_id = turn[t].session_id
              /\ messages[j].session_id = turn[t].session_id
              /\ messages[i].content = QuestionOf(t)
              /\ messages[j].content = QuestionOf(u)

\* C23: turns for different sessions are independent.  Every step of a turn
\* leaves the messages, title and updated_at of every session other than the
\* turn's own unchanged, appends only to the turn's session, fetches only
\* messages of that session, and never changes a title; a turn called with
\* the id of an existing session stays on that session unless it recovered.
C23_OtherSessionsUntouched ==
    [][\A t \in Turns :
          turn'[t] # turn[t] =>
              LET own == turn'[t].session_id
              IN  /\ \A s \in sessions \ {own} :
                        /\ s \in sessions'
                        /\ session_rows'[s] = session_rows[s]
                        /\ MessagesOf(messages', s) = MessagesOf(messages, s)
                  /\ \A i \in 1..Len(messages') :
                        messages'[i].id > nextMid => messages'[i].session_id = own
                  /\ (own \in sessions /\ own \in sessions') =>
                        session_rows'[own].title = session_rows[own].title
                  /\ turn'[t].pc = "append" =>
                        \A i \in 1..Len(messages) :
                            messages[i].id \in turn'[t].hist_ids =>
                                messages[i].session_id = own
                  /\ (turn'[t].via = "direct" /\ turn'[t].request_session_id # None
                         /\ ~turn'[t].recovered) =>
                        own = turn'[t].request_session_id]_vars

\* C23 witness: two turns called on two different existing sessions have
\* both returned, their appends interleaved in the store.
C23_Witness ==
    \E t, u \in Turns :
        /\ Returned(t) /\ Returned(u)
        /\ turn[t].created = 0 /\ turn[u].created = 0
        /\ turn[t].response.session_id # turn[u].response.session_id
        /\ Len(messages) = 4
        /\ messages[1].session_id = messages[3].session_id
        /\ messages[2].session_id = messages[4].session_id
        /\ messages[1].session_id # messages[2].session_id

\* C24: in the application built by create_app the session endpoints under
\* /api/v1/sessions are registered: a session request is dispatched to its
\* handler instead of being rejected as an unknown route.
C24_SessionRoutesRegistered ==
    (call_pc = "done" /\ "path" \in DOMAIN call_args) =>
        \A r \in sessions_router :
            (call_args.method = r.method /\ call_args.path = r.path) =>
                /\ call_result.matched
                /\ call_result.handler = r.handler

\* C25: recovery is one inline retry: within a turn create_session is called
\* at most twice and the user-message append at most twice, and every turn
\* that started returns or raises.
C25_SingleInlineRetry ==
    /\ [](\A t \in Turns : turn[t].created <= 2 /\ turn[t].appends <= 2)
    /\ \A t \in Turns : (turn[t].pc # "idle") ~> (Returned(t) \/ Raised(t))

\* C25 witness: a turn that created a session at its start, lost it, and
\* recovered has returned after two create_session calls and two appends.
C25_Witness ==
    \E t \in Turns :
        /\ Returned(t)
        /\ turn[t].recovered
        /\ turn[t].created = 2
        /\ turn[t].appends = 2

\* C26: for every completed turn the confidence stored in the metadata of
\* the persisted assistant message is the confidence of the returned
\* response, and so lies within [0.0, 1.0].
C26_StoredConfidenceIsReturned ==
    \A t \in Turns :
        Returned(t) =>
            \A i \in 1..Len(messages) :
                (messages[i].id = turn[t].assistant_message
                    /\ messages[i].role = "assistant") =>
                    /\ messages[i].metadata = <<turn[t].response.confidence>>
                    /\ messages[i].metadata[1] >= 0
                    /\ messages[i].metadata[1] <= One

\* the section label the context is to show for a chunk: the placeholder
\* when the chunk has no label or an empty one
LabelOrPlaceholder(doc) ==
    IF "section" \notin DOMAIN doc.metadata THEN <<"F", "M">>
    ELSE IF doc.metadata.section = <<>> THEN <<"F", "M">>
    ELSE doc.metadata.section

\* C27: a retrieved chunk whose section label is empty is rendered with the
\* placeholder in place of the label, never with an empty label, by both
\* generation functions.
C27_EmptySectionRendersPlaceholder ==
    (call_pc = "done" /\ "context_documents" \in DOMAIN call_args) =>
        LET docs == call_args.context_documents
        IN  call_result.rendering =
                Join([i \in 1..Len(docs) |->
                         <<"[">> \o LabelOrPlaceholder(docs[i]) \o <<"]", "\n">>
                             \o docs[i].page_content],
                     <<"\n", "\n">>)

ChunkerRunning == "chunk_size" \in DOMAIN call_args

\* C28: the chunker's active (section, subsection) pair changes only at
\* header lines: a level-1 header sets the section to that line and empties
\* the subsection, a level-2 header changes only the subsection, any other
\* line changes neither; so no chunk carries a subsection set before the
\* level-1 header that gave the chunk its section.
C28_PairChangesOnlyAtHeaders ==
    [][(ChunkerRunning /\ call_result'.i = call_result.i + 1) =>
          LET i == call_result.i
              kind == call_args.lines[i].kind
              before == call_result
              after == call_result'
          IN  /\ kind = "h1" =>
                    after.current_section = i /\ after.current_subsection = 0
              /\ kind = "h2" =>
                    /\ after.current_section = before.current_section
                    /\ after.current_subsection = i
              /\ kind \notin {"h1", "h2"} =>
                    /\ after.current_section = before.current_section
                    /\ after.current_subsection = before.current_subsection
              /\ \A c \in Range(after.chunks) :
                    c.subsection = 0 \/ c.subsection > c.section]_vars

\* C28 witness: a chunk was closed under a section that follows an earlier
\* subsection, and carries no subsection.
C28_Witness ==
    /\ ChunkerRunning
    /\ \E c \in Range(call_result.chunks) :
          /\ c.section # 0
          /\ c.subsection = 0
          /\ \E h \in 1..c.section - 1 : call_args.lines[h].kind = "h2"

\* C29: every turn that returns a response has persisted its assistant
\* message, whatever delete_session calls ran beside it.
C29_ReturnedTurnPersistedAnswer ==
    \A t \in Turns : Returned(t) => turn[t].assistant_message # None

\* C30: every chunk is at most chunk_size long (its lines joined by newline)
\* or consists of exactly one input line.
C30_MultiLineChunkWithinSize ==
    ChunkerRunning =>
        \A c \in Range(call_result.chunks) :
            \/ JoinedLen(call_args.lines, c.content) <= call_args.chunk_size
            \/ Len(c.content) = 1

\* C30 witness: the chunker finished with a chunk of two lines exactly
\* chunk_size long and a chunk of one line longer than chunk_size.
C30_Witness ==
    /\ ChunkerRunning /\ call_pc = "done"
    /\ \E c \in Range(call_result.chunks) :
          /\ Len(c.content) = 2
          /\ JoinedLen(call_args.lines, c.content) = call_args.chunk_size
    /\ \E c \in Range(call_result.chunks) :
          /\ Len(c.content) = 1
          /\ JoinedLen(call_args.lines, c.content) > call_args.chunk_size

====
